---- MODULE Spec2Model ----
(***************************************************************************)
(* Model of the simulation engine of src/als.c: initialize_simulation,    *)
(* spawn_life_form, spawn_food, update_life_form, handle_interactions and  *)
(* simulate_step.                                                          *)
(*                                                                         *)
(* Numbers.  The C code computes in double.  Here every quantity is a      *)
(* fixed-point integer: positions and velocities in whole simulation units *)
(* (products are rounded to the nearest unit), speed_factor and MAX_SPEED  *)
(* in tenths, energy in whole energy units (halving truncates).  The       *)
(* geometry constants keep the values of the source.  The population and   *)
(* energy constants are scaled down so that death, reproduction and full   *)
(* collections are reached in a few ticks; they are the bounds of the      *)
(* model.  rand()/RAND_MAX is the fraction u/RAND_MAX with u drawn from a   *)
(* small sample set at each call site.                                     *)
(***************************************************************************)
EXTENDS Integers, Sequences, FiniteSets

VARIABLES
    life_forms,       \* life_forms[1..life_form_count]   (als.c:55,57)
    food_sources,     \* food_sources[1..food_count]      (als.c:56,58)
    temp_life_forms,  \* scratch next generation of simulate_step (als.c:375,381)
    pc,               \* position inside simulate_step; "idle" between calls
    i,                \* loop index over life forms (0-based, as in the code)
    j,                \* loop index over food (0-based, as in the code)
    pre,              \* history: the collections when the running/last call began
    mid,              \* history: life_forms when the turnover loop of the call began
    last,             \* history: how the last call ended: "none", "completed", "aborted"
    eaten,            \* history: number of food items consumed in the running/last call
    redrew,           \* history: some update of the running/last call redrew a velocity
    ticks             \* number of calls of simulate_step begun so far

vars == <<life_forms, food_sources, temp_life_forms, pc, i, j, pre, mid, last, eaten, redrew, ticks>>

----------------------------------------------------------------------------
(* Constants of the source that keep their value. *)
WINDOW_WIDTH == 800
WINDOW_HEIGHT == 600
LIFE_FORM_RADIUS == 8
FOOD_RADIUS == 3
\* MAX_SPEED 1.5, in tenths
MAX_SPEED == 15
\* speed_factor 1.0 of initialize_simulation, in tenths
DEFAULT_SPEED_FACTOR == 10
\* clamp range 0.5 .. 2.0 of the mutated speed_factor, in tenths
MIN_SPEED_FACTOR == 5
MAX_SPEED_FACTOR == 20
\* width 0.4 of the mutation interval, in tenths
MUTATION_WIDTH == 4
\* width 10.0 of the offspring position offset
OFFSET_WIDTH == 10

(* Constants of the source scaled down: the bounds of the model.           *)
(* Source values: 10, 50, 200, 100, 100.0, 80.0, 0.05, 20.0.               *)
INITIAL_LIFE_FORMS == 2
INITIAL_FOOD_SOURCES == 2
MAX_LIFE_FORMS == 3
MAX_FOOD_SOURCES == 4
MAX_ENERGY == 4
REPRODUCTION_THRESHOLD == 3
ENERGY_LOSS_PER_STEP == 1
ENERGY_GAIN_FROM_FOOD == 2
\* resolution of rand(): rand()/RAND_MAX is u/RAND_MAX for u in 0..RAND_MAX
RAND_MAX == 100
\* the host loop calls simulate_step at most MaxTicks times
MaxTicks == 4

(* Sample sets of rand() at each call site (subsets of 0..RAND_MAX). *)
RandPosX == {50, 52}
RandPosY == {1}
RandVelX == {100}
RandVelY == {100}
RandRoll == {0, 100}
RandMutation == {0, 100}
RandOffsetX == {0, 100}
RandOffsetY == {0}
MallocResults == {"ok", "null"}

----------------------------------------------------------------------------
(* Arithmetic helpers *)
Abs(n) == IF n < 0 THEN -n ELSE n

Sgn(n) == IF n < 0 THEN -1 ELSE IF n > 0 THEN 1 ELSE 0

\* n / d rounded to the nearest integer, halves away from zero (d > 0)
RoundDiv(n, d) == Sgn(n) * ((2 * Abs(n) + d) \div (2 * d))

\* (double)rand() / RAND_MAX * extent
RandomCoordinate(u, extent) == RoundDiv(u * extent, RAND_MAX)

\* (2 * (double)rand() / RAND_MAX - 1) * width: the interval twice as wide
RandomCenteredWide(u, width) == RoundDiv((2 * u - RAND_MAX) * width, RAND_MAX)

\* ((double)rand() / RAND_MAX - 0.5) * width
RandomCentered(u, width) == RoundDiv((2 * u - RAND_MAX) * width, 2 * RAND_MAX)

\* ((double)rand() / RAND_MAX - 0.5) * MAX_SPEED * speed_factor
RandomVelocity(u, speed_factor) ==
    RoundDiv((2 * u - RAND_MAX) * MAX_SPEED * speed_factor, 2 * RAND_MAX * 100)

\* (double)rand() / RAND_MAX < percent / 100
RandomBelow(u, percent) == 100 * u < percent * RAND_MAX

distance_sq(x1, y1, x2, y2) ==
    LET dx == x1 - x2
        dy == y1 - y2
    IN dx * dx + dy * dy

life_form_count == Len(life_forms)
food_count == Len(food_sources)
temp_life_form_count == Len(temp_life_forms)

----------------------------------------------------------------------------
(* Spawner *)
\* spawn_life_form without the capacity test
spawn_life_form_unguarded(lfs, x, y, energy, speed_factor, uvx, uvy) ==
    Append(lfs, [x |-> x, y |-> y, energy |-> energy,
                 speed_factor |-> speed_factor, id |-> Len(lfs),
                 vx |-> RandomVelocity(uvx, speed_factor),
                 vy |-> RandomVelocity(uvy, speed_factor)])

spawn_life_form(lfs, x, y, energy, speed_factor, uvx, uvy) ==
    IF Len(lfs) < MAX_LIFE_FORMS
    THEN Append(lfs, [x |-> x, y |-> y, energy |-> energy,
                      speed_factor |-> speed_factor, id |-> Len(lfs),
                      vx |-> RandomVelocity(uvx, speed_factor),
                      vy |-> RandomVelocity(uvy, speed_factor)])
    ELSE lfs

\* spawn_food without the capacity test
spawn_food_unguarded(foods, x, y) ==
    Append(foods, [x |-> x, y |-> y, is_present |-> 1])

spawn_food(foods, x, y) ==
    IF Len(foods) < MAX_FOOD_SOURCES
    THEN Append(foods, [x |-> x, y |-> y, is_present |-> 1])
    ELSE foods

(* initialize_simulation: the collections after n spawn calls each *)
RECURSIVE InitialLifeForms(_)
InitialLifeForms(n) ==
    IF n = 0 THEN {<<>>}
    ELSE UNION {{spawn_life_form(s, RandomCoordinate(ux, WINDOW_WIDTH),
                                 RandomCoordinate(uy, WINDOW_HEIGHT),
                                 MAX_ENERGY \div 2, DEFAULT_SPEED_FACTOR, uvx, uvy) :
                    ux \in RandPosX, uy \in RandPosY,
                    uvx \in RandVelX, uvy \in RandVelY} :
                s \in InitialLifeForms(n - 1)}

RECURSIVE InitialFood(_)
InitialFood(n) ==
    IF n = 0 THEN {<<>>}
    ELSE UNION {{spawn_food(s, RandomCoordinate(ux, WINDOW_WIDTH),
                            RandomCoordinate(uy, WINDOW_HEIGHT)) :
                    ux \in RandPosX, uy \in RandPosY} :
                s \in InitialFood(n - 1)}

initialize_simulation ==
    /\ life_forms \in InitialLifeForms(INITIAL_LIFE_FORMS)
    /\ food_sources \in InitialFood(INITIAL_FOOD_SOURCES)

Init ==
    /\ initialize_simulation
    /\ temp_life_forms = <<>>
    /\ pc = "idle"
    /\ i = 0
    /\ j = 0
    /\ pre = [life_forms |-> <<>>, food_sources |-> <<>>]
    /\ mid = <<>>
    /\ last = "none"
    /\ eaten = 0
    /\ redrew = FALSE
    /\ ticks = 0

----------------------------------------------------------------------------
(* Per-agent updater *)

\* the bounce with the velocity left as it was
BounceNoFlip(p, v, extent) ==
    IF p - LIFE_FORM_RADIUS < 0 THEN <<LIFE_FORM_RADIUS, v>>
    ELSE IF p + LIFE_FORM_RADIUS > extent THEN <<extent - LIFE_FORM_RADIUS, v>>
    ELSE <<p, v>>

\* the bounce with the position left as it was
BounceNoClamp(p, v, extent) ==
    IF p - LIFE_FORM_RADIUS < 0 THEN <<p, -v>>
    ELSE IF p + LIFE_FORM_RADIUS > extent THEN <<p, -v>>
    ELSE <<p, v>>

\* step 3 of update_life_form on one axis: <<position, velocity>> after the bounce
Bounce(p, v, extent) ==
    IF p - LIFE_FORM_RADIUS < 0 THEN <<LIFE_FORM_RADIUS, -v>>
    ELSE IF p + LIFE_FORM_RADIUS > extent THEN <<extent - LIFE_FORM_RADIUS, -v>>
    ELSE <<p, v>>

\* index (1-based) of the nearest present food, 0 when none: the scan keeps the
\* first entry among equidistant ones (strict <)
NearestFood(x, y, foods) ==
    LET present == {k \in 1..Len(foods) : foods[k].is_present = 1}
        d(k) == distance_sq(x, y, foods[k].x, foods[k].y)
    IN IF present = {} THEN 0
       ELSE CHOOSE k \in present :
              \A m \in present : d(k) < d(m) \/ (d(k) = d(m) /\ k <= m)

\* a * sqrt(d2) <= b for integers a > 0, b >= 0, d2 >= 0, decided exactly and in
\* small numbers: with b = q * a + r, (b / a)^2 = q^2 + (2 * q * r * a + r^2) / a^2
LeqRoot(a, d2, b) ==
    LET q == b \div a
        r == b % a
    IN \/ d2 <= q * q
       \/ /\ d2 < (q + 1) * (q + 1)
          /\ a * a * (d2 - q * q) <= 2 * q * r * a + r * r

\* |cos(angle)| * MAX_SPEED * speed_factor rounded to the nearest unit, where
\* |cos(angle)| = |d| / sqrt(d2): the largest k with
\* (k - 1/2) * sqrt(d2) <= (MAX_SPEED * speed_factor / 100) * |d|
\* (both sides times 20; MAX_SPEED is a multiple of 5)
SteerMagnitude(d, d2, speed_factor) ==
    LET top == (MAX_SPEED * speed_factor) \div 100 + 1
        fits(k) == k = 0 \/ LeqRoot((2 * k - 1) * 10, d2,
                                    (MAX_SPEED \div 5) * speed_factor * Abs(d))
    IN CHOOSE k \in 0..top : fits(k) /\ \A m \in 0..top : fits(m) => m <= k

\* cos(angle) * MAX_SPEED * speed_factor and sin(angle) * ... for
\* angle = atan2(dy, dx); atan2(0, 0) = 0
SteerVelocity(dx, dy, speed_factor) ==
    IF dx = 0 /\ dy = 0
    THEN <<RoundDiv(MAX_SPEED * speed_factor, 100), 0>>
    ELSE LET d2 == dx * dx + dy * dy
         IN <<Sgn(dx) * SteerMagnitude(dx, d2, speed_factor),
              Sgn(dy) * SteerMagnitude(dy, d2, speed_factor)>>

\* update_life_form without the energy loss
LoseEnergyNone(e) == e

\* lf->energy -= ENERGY_LOSS_PER_STEP
LoseEnergy(e) == e - ENERGY_LOSS_PER_STEP

\* the gain assigned instead of added
GainEnergyAssign(e) == ENERGY_GAIN_FROM_FOOD

\* life_forms[i].energy += ENERGY_GAIN_FROM_FOOD
GainEnergy(e) == e + ENERGY_GAIN_FROM_FOOD

ClampEnergy(e) == IF e > MAX_ENERGY THEN MAX_ENERGY ELSE IF e < 0 THEN 0 ELSE e

\* whether this call takes the 1% random change of direction
Redraws(lf, foods, uroll) ==
    LET bx == Bounce(lf.x + lf.vx, lf.vx, WINDOW_WIDTH)
        by == Bounce(lf.y + lf.vy, lf.vy, WINDOW_HEIGHT)
    IN NearestFood(bx[1], by[1], foods) = 0 /\ RandomBelow(uroll, 1)

update_life_form(lf, foods, uroll, uvx, uvy) ==
    LET energy == LoseEnergy(lf.energy)
        bx == Bounce(lf.x + lf.vx, lf.vx, WINDOW_WIDTH)
        by == Bounce(lf.y + lf.vy, lf.vy, WINDOW_HEIGHT)
        nearest == NearestFood(bx[1], by[1], foods)
        v == IF nearest # 0
             THEN SteerVelocity(foods[nearest].x - bx[1], foods[nearest].y - by[1],
                                lf.speed_factor)
             ELSE IF RandomBelow(uroll, 1)
                  THEN <<RandomVelocity(uvx, lf.speed_factor),
                         RandomVelocity(uvy, lf.speed_factor)>>
                  ELSE <<bx[2], by[2]>>
    IN [lf EXCEPT !.energy = ClampEnergy(energy),
                  !.x = bx[1], !.y = by[1], !.vx = v[1], !.vy = v[2]]

----------------------------------------------------------------------------
(* simulate_step, one action per statement group *)

\* entry of simulate_step: the first loop starts (or is skipped when empty)
BeginStep ==
    /\ pc = "idle"
    /\ ticks < MaxTicks
    /\ ticks' = ticks + 1
    /\ pre' = [life_forms |-> life_forms, food_sources |-> food_sources]
    /\ mid' = <<>>
    /\ eaten' = 0
    /\ redrew' = FALSE
    /\ last' = "none"
    /\ i' = 0
    /\ j' = 0
    /\ pc' = IF life_form_count > 0 THEN "update"
             ELSE "compact"
    /\ UNCHANGED <<life_forms, food_sources, temp_life_forms>>

\* one iteration of the loop of step 1
UpdateLifeForm ==
    /\ pc = "update"
    /\ i < life_form_count
    /\ \E uroll \in RandRoll, uvx \in RandVelX, uvy \in RandVelY :
         /\ life_forms' = [life_forms EXCEPT
                             ![i + 1] = update_life_form(@, food_sources, uroll, uvx, uvy)]
         /\ redrew' = (redrew \/ Redraws(life_forms[i + 1], food_sources, uroll))
    /\ IF i + 1 < life_form_count
       THEN /\ i' = i + 1
            /\ pc' = "update"
       ELSE /\ i' = 0
            /\ pc' = IF food_count > 0 THEN "interact" ELSE "compact"
    /\ j' = 0
    /\ UNCHANGED <<food_sources, temp_life_forms, pre, mid, last, eaten, ticks>>

\* the feeding test without the is_present test
OverlapsAbsentToo(lf, food) ==
    distance_sq(lf.x, lf.y, food.x, food.y)
        < (LIFE_FORM_RADIUS + FOOD_RADIUS) * (LIFE_FORM_RADIUS + FOOD_RADIUS)

\* the feeding test of handle_interactions for one pair
Overlaps(lf, food) ==
    LET combined_radius_sq ==
            (LIFE_FORM_RADIUS + FOOD_RADIUS) * (LIFE_FORM_RADIUS + FOOD_RADIUS)
    IN /\ food.is_present = 1
       /\ distance_sq(lf.x, lf.y, food.x, food.y) < combined_radius_sq

\* the body of the pair loop of handle_interactions for the pair (i, j)
FeedPair(uroll, ux, uy) ==
    LET lf == life_forms[i + 1]
        food == food_sources[j + 1]
    IN IF Overlaps(lf, food)
       THEN /\ life_forms' = [life_forms EXCEPT
                                ![i + 1].energy = GainEnergy(@)]
            /\ food_sources' =
                 LET marked == [food_sources EXCEPT ![j + 1].is_present = 0]
                 IN IF RandomBelow(uroll, 80)
                    THEN spawn_food(marked, RandomCoordinate(ux, WINDOW_WIDTH),
                                    RandomCoordinate(uy, WINDOW_HEIGHT))
                    ELSE marked
            /\ eaten' = eaten + 1
       ELSE UNCHANGED <<life_forms, food_sources, eaten>>

InteractPair ==
    /\ pc = "interact"
    /\ i < life_form_count
    /\ j < food_count
    /\ \E uroll \in RandRoll, ux \in RandPosX, uy \in RandPosY : FeedPair(uroll, ux, uy)
    /\ IF j + 1 < Len(food_sources')
       THEN /\ j' = j + 1
            /\ i' = i
            /\ pc' = "interact"
       ELSE IF i + 1 < life_form_count
            THEN /\ j' = 0
                 /\ i' = i + 1
                 /\ pc' = "interact"
            ELSE /\ j' = 0
                 /\ i' = 0
                 /\ pc' = "compact"
    /\ UNCHANGED <<temp_life_forms, pre, mid, last, redrew, ticks>>

\* the compaction loop copying every entry
CompactKeepAll(foods) == foods

\* the compaction loop starting at index 1
CompactSkipFirst(foods) ==
    IF foods = <<>> THEN <<>>
    ELSE SelectSeq(Tail(foods), LAMBDA f : f.is_present = 1)

\* the compaction loop without the is_present test, ending with every entry present
CompactRevive(foods) == [k \in 1..Len(foods) |-> [foods[k] EXCEPT !.is_present = 1]]

\* a compaction that fills the holes from the end: the kept entries in reverse order
CompactFromEnd(foods) ==
    LET kept == SelectSeq(foods, LAMBDA f : f.is_present = 1)
    IN [k \in 1..Len(kept) |-> kept[Len(kept) + 1 - k]]

\* the compaction loop of handle_interactions at index idx (0-based) with
\* current_food_idx = cur: present entries are copied down in place, and at the end
\* food_count = current_food_idx
RECURSIVE CompactLoop(_, _, _)
CompactLoop(arr, idx, cur) ==
    IF idx >= Len(arr) THEN SubSeq(arr, 1, cur)
    ELSE IF arr[idx + 1].is_present = 1
         THEN CompactLoop([arr EXCEPT ![cur + 1] = arr[idx + 1]], idx + 1, cur + 1)
         ELSE CompactLoop(arr, idx + 1, cur)

Compact(foods) == CompactLoop(foods, 0, 0)

CompactFood ==
    /\ pc = "compact"
    /\ food_sources' = Compact(food_sources)
    /\ pc' = "malloc"
    /\ UNCHANGED <<life_forms, temp_life_forms, i, j, pre, mid, last, eaten, redrew, ticks>>

\* malloc of the scratch array and the NULL check
AllocateTemp ==
    /\ pc = "malloc"
    /\ \E r \in MallocResults :
         IF r = "null"
         THEN /\ pc' = "idle"
              /\ last' = "aborted"
              /\ mid' = mid
         ELSE /\ pc' = IF life_form_count > 0 THEN "turnover" ELSE "replace"
              /\ last' = last
              /\ mid' = life_forms
    /\ temp_life_forms' = <<>>
    /\ i' = 0
    /\ UNCHANGED <<life_forms, food_sources, j, pre, eaten, redrew, ticks>>

ClampSpeedFactor(s) ==
    IF s < MIN_SPEED_FACTOR THEN MIN_SPEED_FACTOR
    ELSE IF s > MAX_SPEED_FACTOR THEN MAX_SPEED_FACTOR ELSE s

\* the liveness test with >= in place of >
IsAliveOrZero(lf) == lf.energy >= 0

\* lf->energy > 0
IsAlive(lf) == lf.energy > 0

\* the reproduction test with > in place of >=
CanReproduceAbove(lf, temp_count) ==
    lf.energy > REPRODUCTION_THRESHOLD /\ temp_count + 1 < MAX_LIFE_FORMS

\* lf->energy >= REPRODUCTION_THRESHOLD && temp_life_form_count + 1 < MAX_LIFE_FORMS
CanReproduce(lf, temp_count) ==
    lf.energy >= REPRODUCTION_THRESHOLD /\ temp_count + 1 < MAX_LIFE_FORMS

\* the append writing slot 0 every time (the count stays 1)
AppendTempNoAdvance(temp, lf) ==
    IF Len(temp) < MAX_LIFE_FORMS THEN <<lf>> ELSE temp

AppendTemp(temp, lf) ==
    IF Len(temp) < MAX_LIFE_FORMS THEN Append(temp, lf) ELSE temp

Halve(e) == e \div 2

\* one iteration of the reproduction and death loop
TurnoverLifeForm ==
    /\ pc = "turnover"
    /\ i < life_form_count
    /\ LET lf == life_forms[i + 1]
       IN IF IsAlive(lf)
          THEN IF CanReproduce(lf, temp_life_form_count)
               THEN \E um \in RandMutation, ox \in RandOffsetX, oy \in RandOffsetY,
                       uvx \in RandVelX, uvy \in RandVelY :
                      LET parent == [lf EXCEPT !.energy = Halve(lf.energy)]
                          new_speed_factor ==
                              ClampSpeedFactor(lf.speed_factor
                                               + RandomCentered(um, MUTATION_WIDTH))
                      IN /\ temp_life_forms' = AppendTemp(temp_life_forms, parent)
                         /\ life_forms' =
                              spawn_life_form([life_forms EXCEPT ![i + 1] = parent],
                                              parent.x + RandomCentered(ox, OFFSET_WIDTH),
                                              parent.y + RandomCentered(oy, OFFSET_WIDTH),
                                              parent.energy, new_speed_factor, uvx, uvy)
               ELSE /\ temp_life_forms' = AppendTemp(temp_life_forms, lf)
                    /\ life_forms' = life_forms
          ELSE UNCHANGED <<life_forms, temp_life_forms>>
    /\ i' = i + 1
    /\ pc' = IF i + 1 < Len(life_forms') THEN "turnover" ELSE "replace"
    /\ UNCHANGED <<food_sources, j, pre, mid, last, eaten, redrew, ticks>>

\* the copy back into life_forms, the count update and free
ReplaceGeneration ==
    /\ pc = "replace"
    /\ life_forms' = temp_life_forms
    /\ temp_life_forms' = <<>>
    /\ pc' = "idle"
    /\ last' = "completed"
    /\ i' = 0
    /\ UNCHANGED <<food_sources, j, pre, mid, eaten, redrew, ticks>>

simulate_step ==
    \/ BeginStep
    \/ UpdateLifeForm
    \/ InteractPair
    \/ CompactFood
    \/ AllocateTemp
    \/ TurnoverLifeForm
    \/ ReplaceGeneration

Next == simulate_step

Spec == Init /\ [][Next]_vars

----------------------------------------------------------------------------
(* Collections set up directly, as a test of one tick does: one life form  *)
(* placed at a chosen position (also outside the walls) with a chosen      *)
(* velocity and energy, and up to FixtureFood food items.                  *)
FixtureXs == {-1, 0, 400}
FixtureYs == {0, 300}
FixtureVxs == {-1, 1}
FixtureEnergies == {1, REPRODUCTION_THRESHOLD, MAX_ENERGY}
FixturePlaces == {<<0, 0>>, <<400, 300>>}
FixtureFood == 2

FixtureLifeForms ==
    {<<[x |-> x, y |-> y, vx |-> vx, vy |-> 0, energy |-> e,
        speed_factor |-> DEFAULT_SPEED_FACTOR, id |-> 0]>> :
        x \in FixtureXs, y \in FixtureYs, vx \in FixtureVxs, e \in FixtureEnergies}

RECURSIVE FixtureFoods(_)
FixtureFoods(n) ==
    IF n = 0 THEN {<<>>}
    ELSE FixtureFoods(n - 1)
         \cup UNION {{spawn_food(s, p[1], p[2]) : p \in FixturePlaces} :
                        s \in FixtureFoods(n - 1)}

InitFixture ==
    /\ life_forms \in FixtureLifeForms
    /\ food_sources \in FixtureFoods(FixtureFood)
    /\ temp_life_forms = <<>>
    /\ pc = "idle"
    /\ i = 0
    /\ j = 0
    /\ pre = [life_forms |-> <<>>, food_sources |-> <<>>]
    /\ mid = <<>>
    /\ last = "none"
    /\ eaten = 0
    /\ redrew = FALSE
    /\ ticks = 0

\* the program started by initialize_simulation, or from a fixture
SpecFixture == (Init \/ InitFixture) /\ [][Next]_vars

(* Two life forms at rest next to the top wall, 0 or 8 units apart, and up  *)
(* to FixtureFood food items in reach of the second or of both.             *)
PairXs == {400, 408}
PairPlaces == {<<400, 6>>, <<416, 8>>}

PairLifeForms ==
    {<<[x |-> 400, y |-> LIFE_FORM_RADIUS, vx |-> 0, vy |-> 0,
        energy |-> MAX_ENERGY \div 2, speed_factor |-> DEFAULT_SPEED_FACTOR, id |-> 0],
       [x |-> x, y |-> LIFE_FORM_RADIUS, vx |-> 0, vy |-> 0,
        energy |-> MAX_ENERGY \div 2, speed_factor |-> DEFAULT_SPEED_FACTOR, id |-> 1]>> :
        x \in PairXs}

RECURSIVE PairFoods(_)
PairFoods(n) ==
    IF n = 0 THEN {<<>>}
    ELSE PairFoods(n - 1)
         \cup UNION {{spawn_food(s, p[1], p[2]) : p \in PairPlaces} :
                        s \in PairFoods(n - 1)}

InitPair ==
    /\ life_forms \in PairLifeForms
    /\ food_sources \in PairFoods(FixtureFood)
    /\ temp_life_forms = <<>>
    /\ pc = "idle"
    /\ i = 0
    /\ j = 0
    /\ pre = [life_forms |-> <<>>, food_sources |-> <<>>]
    /\ mid = <<>>
    /\ last = "none"
    /\ eaten = 0
    /\ redrew = FALSE
    /\ ticks = 0

\* the program started by initialize_simulation, or from a pair fixture
SpecPair == (Init \/ InitPair) /\ [][Next]_vars

(* The program after the food has run out: no food, and one or two life    *)
(* forms with the slowest trait, a velocity below half a unit per tick and  *)
(* too little energy left to reproduce after the loss of the next tick.     *)
(* simulate_step is called again and again, as the main loop does.          *)
StarvedEnergies == 1..REPRODUCTION_THRESHOLD

StarvedLifeForm(k, e) ==
    [x |-> WINDOW_WIDTH \div 2, y |-> WINDOW_HEIGHT \div 2, vx |-> 0, vy |-> 0,
     energy |-> e, speed_factor |-> MIN_SPEED_FACTOR, id |-> k]

StarvedLifeForms ==
    {<<StarvedLifeForm(0, e)>> : e \in StarvedEnergies}
    \cup {<<StarvedLifeForm(0, e), StarvedLifeForm(1, f)>> :
             e \in StarvedEnergies, f \in StarvedEnergies}

InitStarved ==
    /\ life_forms \in StarvedLifeForms
    /\ food_sources = <<>>
    /\ temp_life_forms = <<>>
    /\ pc = "idle"
    /\ i = 0
    /\ j = 0
    /\ pre = [life_forms |-> <<>>, food_sources |-> <<>>]
    /\ mid = <<>>
    /\ last = "none"
    /\ eaten = 0
    /\ redrew = FALSE
    /\ ticks = 0

\* entry of simulate_step in a run of any length: the calls are not counted
BeginStarvedStep ==
    /\ pc = "idle"
    /\ food_count = 0
    /\ pre' = [life_forms |-> life_forms, food_sources |-> food_sources]
    /\ mid' = <<>>
    /\ eaten' = 0
    /\ redrew' = FALSE
    /\ last' = "none"
    /\ i' = 0
    /\ j' = 0
    /\ pc' = IF life_form_count > 0 THEN "update"
             ELSE "compact"
    /\ UNCHANGED <<life_forms, food_sources, temp_life_forms, ticks>>

\* simulate_step without food: the pair loop of handle_interactions has no iteration
NextStarved ==
    \/ BeginStarvedStep
    \/ UpdateLifeForm
    \/ CompactFood
    \/ AllocateTemp
    \/ TurnoverLifeForm
    \/ ReplaceGeneration

\* the main loop calls simulate_step in every iteration and every call runs to its end
SpecStarved == InitStarved /\ [][NextStarved]_vars /\ WF_vars(NextStarved)

----------------------------------------------------------------------------
(* Properties *)

AtBoundary == pc = "idle"
AfterStep == pc = "idle" /\ last # "none"
AfterCompletedStep == pc = "idle" /\ last = "completed"

\* C1: capacity invariant. In every state, also inside a step,
\* 0 <= life_form_count <= MAX_LIFE_FORMS, 0 <= food_count <= MAX_FOOD_SOURCES and
\* the scratch count <= MAX_LIFE_FORMS: no slot at or past the capacity is written.
CapacityInvariant ==
    /\ 0 <= life_form_count /\ life_form_count <= MAX_LIFE_FORMS
    /\ 0 <= food_count /\ food_count <= MAX_FOOD_SOURCES
    /\ 0 <= temp_life_form_count /\ temp_life_form_count <= MAX_LIFE_FORMS

\* both collections full inside the pair scan, replacement food having been appended
CapacityReached ==
    /\ pc = "interact"
    /\ eaten > 0
    /\ life_form_count = MAX_LIFE_FORMS
    /\ food_count = MAX_FOOD_SOURCES

\* C2: clamp invariant. After every completed simulate_step every life form of the
\* collection has energy in [0, MAX_ENERGY].
EnergyClampInvariant ==
    AfterCompletedStep =>
        \A k \in 1..life_form_count :
            0 <= life_forms[k].energy /\ life_forms[k].energy <= MAX_ENERGY

\* C3: death invariant. After every completed simulate_step no life form of the
\* collection has energy <= 0; the next generation never receives an agent whose
\* energy is <= 0, so such an agent is absent from the post-tick collection.
DeathInvariant ==
    /\ \A k \in 1..temp_life_form_count : temp_life_forms[k].energy > 0
    /\ AfterCompletedStep => \A k \in 1..life_form_count : life_forms[k].energy > 0

\* a completed tick in which an agent died and another survived
DeathHappened ==
    /\ AfterCompletedStep
    /\ life_form_count > 0
    /\ life_form_count < Len(pre.life_forms)

\* C4: compaction invariant. After initialize_simulation and after every
\* simulate_step every food entry of the collection has is_present = 1.
CompactionInvariant ==
    AtBoundary => \A k \in 1..food_count : food_sources[k].is_present = 1

\* a tick in which food was consumed and replacement food was appended and kept
CompactedAfterReplacement ==
    /\ AfterCompletedStep
    /\ eaten > 0
    /\ food_count > 0
    /\ food_count > Len(pre.food_sources) - eaten

\* C5: id uniqueness. At a tick boundary no two life forms of the collection have
\* the same id.
IdUniqueness ==
    AtBoundary =>
        \A a, b \in 1..life_form_count :
            a # b => life_forms[a].id # life_forms[b].id

\* C6: a failed turnover is all or nothing. When the scratch allocation fails the
\* life-form collection after the call is the collection before the call.
FailedTurnoverAllOrNothing ==
    (pc = "idle" /\ last = "aborted") => life_forms = pre.life_forms

\* the case of C7: a single life form whose energy is at least the threshold after
\* the loss of the tick (the source's 90 against 80) and at most MAX_ENERGY, and
\* that ate nothing
LoneParent ==
    /\ Len(pre.life_forms) = 1
    /\ pre.life_forms[1].energy >= REPRODUCTION_THRESHOLD + ENERGY_LOSS_PER_STEP
    /\ pre.life_forms[1].energy <= MAX_ENERGY
    /\ eaten = 0

\* parent with half of its energy after the loss (truncated to the energy unit),
\* one offspring with the same energy within OFFSET_WIDTH / 2 of the parent
ParentAndOffspring ==
    /\ life_form_count = 2
    /\ LET parent == life_forms[1]
           child == life_forms[2]
           left == pre.life_forms[1].energy - ENERGY_LOSS_PER_STEP
       IN /\ 2 * parent.energy <= left /\ left <= 2 * parent.energy + 1
          /\ child.energy = parent.energy
          /\ 2 * Abs(child.x - parent.x) <= OFFSET_WIDTH
          /\ 2 * Abs(child.y - parent.y) <= OFFSET_WIDTH

InWindow(x, y) == 0 <= x /\ x <= WINDOW_WIDTH /\ 0 <= y /\ y <= WINDOW_HEIGHT

AwayFromWalls(x, y) ==
    /\ LIFE_FORM_RADIUS <= x /\ x <= WINDOW_WIDTH - LIFE_FORM_RADIUS
    /\ LIFE_FORM_RADIUS <= y /\ y <= WINDOW_HEIGHT - LIFE_FORM_RADIUS

\* life form a and food item k were at the same place when the call began
Together(a, k) ==
    /\ pre.food_sources[k].is_present = 1
    /\ pre.food_sources[k].x = pre.life_forms[a].x
    /\ pre.food_sources[k].y = pre.life_forms[a].y

NoReproduction(e) ==
    last = "aborted" \/ e - ENERGY_LOSS_PER_STEP + ENERGY_GAIN_FROM_FOOD < REPRODUCTION_THRESHOLD

EmptyIsAbsorbing ==
    [][life_form_count = 0 =>
          (Len(life_forms') = 0 /\ food_sources' = food_sources)]_vars

\* a completed tick of an empty population that has food
EmptyTickRan ==
    /\ AfterCompletedStep
    /\ Len(pre.life_forms) = 0
    /\ life_form_count = 0
    /\ food_count > 0

\* the case of C10: a lone life form at x = -1 with vx = +1 that crosses no other
\* wall in the tick, and is still in the collection after it
CrossedLeftWall ==
    /\ AfterStep
    /\ Len(pre.life_forms) = 1
    /\ pre.life_forms[1].x = -1
    /\ pre.life_forms[1].vx = 1
    /\ LIFE_FORM_RADIUS <= pre.life_forms[1].y + pre.life_forms[1].vy
    /\ pre.life_forms[1].y + pre.life_forms[1].vy <= WINDOW_HEIGHT - LIFE_FORM_RADIUS
    /\ life_form_count >= 1

\* C10 as stated: it ends the tick with x = LIFE_FORM_RADIUS and vx = -1.
ReflectionAlways ==
    CrossedLeftWall => (life_forms[1].x = LIFE_FORM_RADIUS /\ life_forms[1].vx = -1)

\* C10, amended: it ends the tick with x = LIFE_FORM_RADIUS, and with vx = -1 when
\* no food is present and the random change of direction is not taken.
ReflectionWithoutSteering ==
    CrossedLeftWall =>
        /\ life_forms[1].x = LIFE_FORM_RADIUS
        /\ (pre.food_sources = <<>> /\ ~redrew) => life_forms[1].vx = -1

ReflectedWithoutSteering == CrossedLeftWall /\ pre.food_sources = <<>> /\ ~redrew

\* the life form is within the combined radius of the food entry
InReach(lf, food) ==
    distance_sq(lf.x, lf.y, food.x, food.y)
        < (LIFE_FORM_RADIUS + FOOD_RADIUS) * (LIFE_FORM_RADIUS + FOOD_RADIUS)

\* a step of the pair scan in which the pair (i, j) feeds
Feeds == pc = "interact" /\ eaten' = eaten + 1

\* the fed entry was present and is absent afterwards, the life form of the pair and
\* no other gains ENERGY_GAIN_FROM_FOOD, and no absent entry becomes present again
SingleConsumption ==
    /\ Feeds =>
         /\ food_sources[j + 1].is_present = 1
         /\ food_sources'[j + 1].is_present = 0
         /\ \A k \in 1..life_form_count :
              life_forms'[k].energy = life_forms[k].energy
                  + (IF k = i + 1 THEN ENERGY_GAIN_FROM_FOOD ELSE 0)
    /\ pc = "interact" =>
         \A k \in 1..food_count :
             food_sources[k].is_present = 0 => food_sources'[k].is_present = 0

\* C11 as stated: each food entry feeds at most one life form, and the life form fed
\* by an entry is the lowest-indexed one within the combined radius of it.
IndexPriorityAnyFood ==
    [][SingleConsumption
       /\ (Feeds => \A k \in 1..i : ~InReach(life_forms[k], food_sources[j + 1]))]_vars

\* every entry present when the pass began that some life form reaches has been fed on
ReachedFoodEaten ==
    pc = "compact" =>
        \A f \in 1..Len(pre.food_sources) :
            (\E k \in 1..life_form_count : InReach(life_forms[k], food_sources[f]))
                => food_sources[f].is_present = 0

\* C11, amended: each food entry feeds at most one life form, and an entry that was
\* present when the pass began feeds the lowest-indexed life form within the combined
\* radius of it.
IndexPriorityInitialFood ==
    /\ []ReachedFoodEaten
    /\ [][SingleConsumption
          /\ ((Feeds /\ j + 1 <= Len(pre.food_sources)) =>
                 \A k \in 1..i : ~InReach(life_forms[k], food_sources[j + 1]))]_vars

\* two life forms reach the same initially present entry; the first one was fed,
\* the second one got nothing in the pass
LowerIndexFed ==
    /\ pc = "compact"
    /\ life_form_count >= 2
    /\ \E f \in 1..Len(pre.food_sources) :
         /\ InReach(life_forms[1], food_sources[f])
         /\ InReach(life_forms[2], food_sources[f])
         /\ food_sources[f].is_present = 0
    /\ life_forms[1].energy
         >= pre.life_forms[1].energy - ENERGY_LOSS_PER_STEP + ENERGY_GAIN_FROM_FOOD
    /\ life_forms[2].energy = pre.life_forms[2].energy - ENERGY_LOSS_PER_STEP

\* e2 is e halved (to the energy unit)
IsHalf(e2, e) == 2 * e2 <= e /\ e <= 2 * e2 + 1

\* number of entries before index k (1-based) of a collection with energy > 0
AliveBefore(lfs, k) == Cardinality({m \in 1..(k - 1) : lfs[m].energy > 0})

\* the turnover loop is at a life form that reproduces while the collection is full
SpawnRejected ==
    /\ pc = "turnover"
    /\ life_forms[i + 1].energy >= REPRODUCTION_THRESHOLD
    /\ temp_life_form_count + 1 < MAX_LIFE_FORMS
    /\ life_form_count = MAX_LIFE_FORMS

\* C12: turnover ordering on a rejected offspring. A reproducing life form whose
\* offspring is rejected because the collection is full is appended to the next
\* generation with halved energy and the collection gains no entry; entries of the
\* next generation are not changed afterwards and become the post-tick collection.
RejectedOffspringOrdering ==
    [][/\ SpawnRejected =>
            /\ Len(temp_life_forms') = temp_life_form_count + 1
            /\ temp_life_forms'[temp_life_form_count + 1] = life_forms'[i + 1]
            /\ IsHalf(life_forms'[i + 1].energy, life_forms[i + 1].energy)
            /\ [life_forms'[i + 1] EXCEPT !.energy = 0]
                    = [life_forms[i + 1] EXCEPT !.energy = 0]
            /\ Len(life_forms') = life_form_count
       /\ pc = "turnover" =>
            SubSeq(temp_life_forms', 1, temp_life_form_count) = temp_life_forms
       /\ pc = "replace" => life_forms' = temp_life_forms]_vars

\* a completed tick whose turnover began with a full collection and in which the
\* k-th life form reproduced: it is in the post-tick collection with halved energy,
\* and the collection holds the survivors only
OffspringWasRejected ==
    /\ AfterCompletedStep
    /\ Len(mid) = MAX_LIFE_FORMS
    /\ life_form_count = AliveBefore(mid, Len(mid) + 1)
    /\ \E k \in 1..Len(mid) :
         /\ mid[k].energy >= REPRODUCTION_THRESHOLD
         /\ AliveBefore(mid, k) + 1 < MAX_LIFE_FORMS
         /\ IsHalf(life_forms[AliveBefore(mid, k) + 1].energy, mid[k].energy)

\* C13: no living agent is lost in turnover. After a completed step the life forms
\* that had energy > 0 when the turnover began are the first entries of the
\* collection, in their order, each unchanged but for its energy, which is halved
\* if it reproduced and unchanged otherwise; also when the collection was full.
NoLivingAgentLost ==
    AfterCompletedStep =>
        /\ life_form_count >= AliveBefore(mid, Len(mid) + 1)
        /\ \A k \in 1..Len(mid) :
             mid[k].energy > 0 =>
                LET a == life_forms[AliveBefore(mid, k) + 1]
                    reproduced == /\ mid[k].energy >= REPRODUCTION_THRESHOLD
                                  /\ AliveBefore(mid, k) + 1 < MAX_LIFE_FORMS
                IN /\ [a EXCEPT !.energy = 0] = [mid[k] EXCEPT !.energy = 0]
                   /\ IF reproduced THEN IsHalf(a.energy, mid[k].energy)
                      ELSE a.energy = mid[k].energy

\* a completed tick whose turnover began with a full collection of living agents,
\* the first of which reproduced
FullGenerationKept ==
    /\ AfterCompletedStep
    /\ Len(mid) = MAX_LIFE_FORMS
    /\ \A k \in 1..Len(mid) : mid[k].energy > 0
    /\ mid[1].energy >= REPRODUCTION_THRESHOLD
    /\ life_form_count = MAX_LIFE_FORMS

\* C14: food compaction is an order-preserving filter. The compaction step leaves
\* exactly the entries whose is_present flag is 1 at the end of the pair scan, in
\* their order, none duplicated or lost, and food_count is their number.
CompactionIsFilter ==
    [][pc = "compact" =>
          /\ food_sources' = SelectSeq(food_sources, LAMBDA f : f.is_present = 1)
          /\ Len(food_sources')
                = Cardinality({k \in 1..food_count : food_sources[k].is_present = 1})]_vars

\* after a compaction that removed consumed entries and kept at least two entries
\* at different places, one of them appended during the pass
CompactionKeptSeveral ==
    /\ pc = "malloc"
    /\ eaten > 0
    /\ food_count >= 2
    /\ food_count > Len(pre.food_sources) - eaten
    /\ food_sources[1] # food_sources[2]

InTraitDomain(lf) ==
    MIN_SPEED_FACTOR <= lf.speed_factor /\ lf.speed_factor <= MAX_SPEED_FACTOR

\* every life form of the collection and of the next generation is in [0.5, 2.0]
TraitDomain ==
    /\ \A k \in 1..life_form_count : InTraitDomain(life_forms[k])
    /\ \A k \in 1..temp_life_form_count : InTraitDomain(temp_life_forms[k])

\* no step changes the speed_factor of an entry, a copy to the next generation keeps
\* it, and a spawned offspring is within 0.2 of its parent
TraitKept ==
    /\ pc \in {"update", "interact", "turnover"} =>
         \A k \in 1..life_form_count :
             life_forms'[k].speed_factor = life_forms[k].speed_factor
    /\ (pc = "turnover" /\ Len(temp_life_forms') > temp_life_form_count) =>
         /\ SubSeq(temp_life_forms', 1, temp_life_form_count) = temp_life_forms
         /\ temp_life_forms'[Len(temp_life_forms')].speed_factor
                = life_forms[i + 1].speed_factor
    /\ (pc = "turnover" /\ Len(life_forms') > life_form_count) =>
         2 * Abs(life_forms'[Len(life_forms')].speed_factor
                   - life_forms[i + 1].speed_factor) <= MUTATION_WIDTH
    /\ pc = "replace" => life_forms' = temp_life_forms

\* C15: speed-trait domain. In every reachable state every life form's speed_factor
\* is in [0.5, 2.0]; no step changes the speed_factor of a life form, and an
\* offspring's speed_factor differs from its parent's by at most 0.2.
SpeedTraitDomain == []TraitDomain /\ [][TraitKept]_vars

\* a tick boundary with a life form whose trait was mutated twice downwards and one
\* whose trait is the initial one
TraitMutated ==
    /\ AtBoundary
    /\ \E k \in 1..life_form_count :
         life_forms[k].speed_factor = DEFAULT_SPEED_FACTOR - MUTATION_WIDTH
    /\ \E k \in 1..life_form_count : life_forms[k].speed_factor = DEFAULT_SPEED_FACTOR

\* C16: food never grows. After every call of simulate_step food_count is at most
\* food_count before the call, and between calls it is at most the number of food
\* items initialize_simulation created.
FoodNeverGrows ==
    /\ AfterStep => food_count <= Len(pre.food_sources)
    /\ AtBoundary => food_count <= INITIAL_FOOD_SOURCES

\* a completed call in which food was eaten and every eaten item was replaced: the
\* count is the one before the call, the entries are not
FoodFullyReplaced ==
    /\ AfterCompletedStep
    /\ eaten > 0
    /\ food_count = Len(pre.food_sources)
    /\ food_sources # pre.food_sources

NoFoodFromNothing == [][food_count = 0 => Len(food_sources') = 0]_vars

\* C18: one offspring per agent per tick. During the turnover loop the collection has
\* grown by at most one life form for each life form of the loop's start that was
\* visited (a life form spawned in the pass adds none), and after a completed call
\* life_form_count is at most twice life_form_count before the call.
OneOffspringPerAgent ==
    /\ pc = "turnover" =>
         life_form_count <= Len(mid) + (IF i < Len(mid) THEN i ELSE Len(mid))
    /\ AfterCompletedStep => life_form_count <= 2 * Len(pre.life_forms)

PresentCount(foods) == Cardinality({k \in 1..Len(foods) : foods[k].is_present = 1})

\* the pair loop is at a pair that feeds
AtFeedingPair ==
    /\ pc = "interact"
    /\ i < life_form_count
    /\ j < food_count
    /\ Overlaps(life_forms[i + 1], food_sources[j + 1])

\* C19: replacement food is limited only by present food. At a pair that feeds, with
\* the eaten entry marked absent, the replacement of a passed roll is stored unless
\* MAX_FOOD_SOURCES entries are present: absent entries take no capacity.
ReplacementLimitedByPresent ==
    AtFeedingPair =>
        LET marked == [food_sources EXCEPT ![j + 1].is_present = 0]
        IN PresentCount(marked) < MAX_FOOD_SOURCES =>
             \A ux \in RandPosX, uy \in RandPosY :
                 Len(spawn_food(marked, RandomCoordinate(ux, WINDOW_WIDTH),
                                RandomCoordinate(uy, WINDOW_HEIGHT)))
                     = Len(marked) + 1

InsideWalls(lf) ==
    /\ LIFE_FORM_RADIUS <= lf.x /\ lf.x <= WINDOW_WIDTH - LIFE_FORM_RADIUS
    /\ LIFE_FORM_RADIUS <= lf.y /\ lf.y <= WINDOW_HEIGHT - LIFE_FORM_RADIUS

\* C20 as stated: agents stay inside the walls. After every completed call of
\* simulate_step every life form of the collection, offspring included, is at least
\* LIFE_FORM_RADIUS away from every wall.
AgentsInsideWalls ==
    AfterCompletedStep => \A k \in 1..life_form_count : InsideWalls(life_forms[k])

\* the life form is one that the turnover loop found in the collection at its start
UpdatedThisTick(lf) ==
    \E m \in 1..Len(mid) :
        /\ mid[m].x = lf.x /\ mid[m].y = lf.y
        /\ mid[m].vx = lf.vx /\ mid[m].vy = lf.vy
        /\ mid[m].speed_factor = lf.speed_factor /\ mid[m].id = lf.id

\* every updated life form is inside the walls: during the update loop those already
\* visited, from the end of the update loop to the start of the turnover all, during
\* the turnover those present at its start, and after the call the survivors
UpdatedInside ==
    /\ pc = "update" => \A k \in 1..i : InsideWalls(life_forms[k])
    /\ pc \in {"interact", "compact", "malloc"} =>
         \A k \in 1..life_form_count : InsideWalls(life_forms[k])
    /\ pc \in {"turnover", "replace"} =>
         /\ Len(mid) <= life_form_count
         /\ \A k \in 1..Len(mid) : InsideWalls(life_forms[k])
    /\ AfterCompletedStep =>
         \A k \in 1..life_form_count :
             UpdatedThisTick(life_forms[k]) => InsideWalls(life_forms[k])

\* a spawned offspring is within 5 units of its parent on each axis
OffspringNearParent ==
    (pc = "turnover" /\ Len(life_forms') > life_form_count) =>
        LET child == life_forms'[Len(life_forms')]
            parent == life_forms[i + 1]
        IN /\ 2 * Abs(child.x - parent.x) <= OFFSET_WIDTH
           /\ 2 * Abs(child.y - parent.y) <= OFFSET_WIDTH

\* C20: updated agents stay inside the walls. After every completed call of
\* simulate_step every life form that the call updated is at least LIFE_FORM_RADIUS
\* away from every wall; a life form spawned in the call lies within 5 units of its
\* parent on each axis.
UpdatedAgentsInsideWalls == []UpdatedInside /\ [][OffspringNearParent]_vars

\* a completed call after which a survivor is inside the walls and an offspring of the
\* call is not
OffspringOutsideWalls ==
    /\ AfterCompletedStep
    /\ life_form_count > Len(mid)
    /\ \E k \in 1..life_form_count : UpdatedThisTick(life_forms[k])
    /\ \E k \in 1..life_form_count : ~InsideWalls(life_forms[k])

====
